---- MODULE Spec2Model ----
(***************************************************************************)
(* Content-addressed package store (crates/myenv-store/src/lib.rs).        *)
(*                                                                         *)
(* The store owns two directories: the content directory store_dir, with   *)
(* one sub-directory per content hash, and the bin directory bin_dir, with *)
(* one symlink per activated binary name.  The model keeps both as state   *)
(* and runs every operation of Store as a sequence of filesystem steps.    *)
(***************************************************************************)
EXTENDS Integers, Sequences, FiniteSets, TLC

(***************************************************************************)
(* Bounds of the model.                                                    *)
(***************************************************************************)
\* how many StoredPackage handles the caller keeps for later activate/deactivate
MaxHandles == 1
\* how many filesystem calls may fail with an I/O error in one run
MaxFaults == 1
\* how many calls that change the store (add_bytes, add_path, activate,
\* deactivate, gc) the callers issue in one run, and in one run of SpecDeep
MaxCalls == 4
MaxCallsDeep == 5
\* how many bytes may follow the leading bytes of a blob of SniffBlobs, and
\* how many add_bytes calls a run of SpecSniff issues
MaxPayload == 1
MaxSniffCalls == 1
\* how many add_path calls a run of SpecHash issues
MaxHashCalls == 1
\* how many add_bytes calls the two racing processes issue together
MaxRaceCalls == 2
\* how many calls (add_bytes, activate, deactivate, gc) the two processes of
\* SpecLinks issue together
MaxLinkCalls == 4
\* how many calls (add_bytes, activate, gc) the two processes of SpecGcRace
\* issue together
MaxGcRaceCalls == 3
\* how many add_bytes calls a run of SpecQuery issues
MaxQueryCalls == 2

(***************************************************************************)
(* Bytes, names and the digest.                                            *)
(***************************************************************************)
\* file names, with the bytes hash_dir feeds for them (name.as_bytes())
NameBytes(name) ==
    CASE name = "bin"   -> <<98, 105, 110>>
      [] name = "foo"   -> <<102, 111, 111>>
      [] name = "tool"  -> <<116, 111, 111, 108>>
      [] name = "usr"   -> <<117, 115, 114>>
      [] name = "local" -> <<108, 111, 99, 97, 108>>
      [] name = "store" -> <<115, 116, 111, 114, 101>>

RECURSIVE BytesLess(_, _)
\* byte-wise lexicographic order (Ord for Path / str)
BytesLess(a, b) ==
    IF a = <<>> THEN b # <<>>
    ELSE IF b = <<>> THEN FALSE
    ELSE IF a[1] # b[1] THEN a[1] < b[1]
    ELSE BytesLess(Tail(a), Tail(b))

\* format!("{:x}", hasher.finalize()): the digest of the byte stream fed to the
\* hasher, modelled as injective on that stream
Sha256Hex(stream) == [sha256 |-> stream]

\* hash_bytes
hash_bytes(bytes) == Sha256Hex(bytes)

(***************************************************************************)
(* Directory trees.  A tree maps the relative path of every entry below    *)
(* its root to a node; the root itself is not an entry.                    *)
(***************************************************************************)
FileNode(data, exec) == [k |-> "file", data |-> data, exec |-> exec]
DirNode == [k |-> "dir", data |-> <<>>, exec |-> FALSE]
EmptyTree == <<>>

\* the names of the immediate children of directory dir of tree t
Children(t, dir) ==
    { p[Len(p)] : p \in { q \in DOMAIN t : Len(q) = Len(dir) + 1
                                          /\ SubSeq(q, 1, Len(dir)) = dir } }

IsDirIn(t, rel) == rel = <<>> \/ (rel \in DOMAIN t /\ t[rel].k = "dir")
IsFileIn(t, rel) == rel \in DOMAIN t /\ t[rel].k = "file"

RECURSIVE SortedNames(_, _)
\* the names of S as a sequence, ascending by their bytes, or descending
SortedNames(S, descending) ==
    IF S = {} THEN <<>>
    ELSE LET first == CHOOSE n \in S : \A m \in S \ {n} :
                          IF descending THEN BytesLess(NameBytes(m), NameBytes(n))
                                        ELSE BytesLess(NameBytes(n), NameBytes(m))
         IN  <<first>> \o SortedNames(S \ {first}, descending)

\* fs::read_dir of tree t's directory dir: its entries in the order the
\* filesystem lists them (order is "asc" or "desc")
ReadDirTree(t, dir, order) ==
    IF IsDirIn(t, dir) THEN SortedNames(Children(t, dir), order = "desc") ELSE <<>>

(***************************************************************************)
(* Hasher: hash_path, hash_dir.                                            *)
(***************************************************************************)
RECURSIVE HashDirEntries(_, _, _, _)
RECURSIVE hash_dir(_, _, _)
\* hash_dir that feeds the entries in the order read_dir lists them
hash_dirUnsorted(t, dir, order) ==
    HashDirEntries(t, dir, order, ReadDirTree(t, dir, order))

\* the bytes hash_dir feeds to the hasher for directory dir of tree t:
\* read_dir, sort by path, then for each entry its name bytes followed by the
\* file's contents or, for a directory, by what the recursive call feeds
hash_dir(t, dir, order) ==
    LET listed == ReadDirTree(t, dir, order)
        entries == SortedNames({ listed[i] : i \in 1..Len(listed) }, FALSE)
    IN  HashDirEntries(t, dir, order, entries)

HashDirEntries(t, dir, order, entries) ==
    IF entries = <<>> THEN <<>>
    ELSE LET name == Head(entries)
             path == Append(dir, name)
             fed  == IF t[path].k = "file" THEN t[path].data
                     ELSE hash_dir(t, path, order)
         IN  NameBytes(name) \o fed \o HashDirEntries(t, dir, order, Tail(entries))

\* hash_path: a file feeds its bytes, a directory what hash_dir feeds, and a
\* path that is neither feeds nothing
hash_path(source, order) ==
    Sha256Hex(CASE source.kind = "file" -> source.data
                [] source.kind = "dir"  -> hash_dir(source.tree, <<>>, order)
                [] OTHER                -> <<>>)

(***************************************************************************)
(* Archive Inspector: try_unpack_archive.                                  *)
(***************************************************************************)
GzipMagic == <<31, 139>>
XzMagic == <<253, 55, 122, 88, 90, 0>>
ZipMagic == <<80, 75, 3, 4>>

\* the format try_unpack_archive takes the bytes for, tested in its order
ArchiveFormat(bytes) ==
    IF Len(bytes) > 2 /\ bytes[1] = 31 /\ bytes[2] = 139 THEN "gzip"
    ELSE IF Len(bytes) > 6 /\ SubSeq(bytes, 1, 6) = XzMagic THEN "xz"
    ELSE IF Len(bytes) > 4 /\ SubSeq(bytes, 1, 4) = ZipMagic THEN "zip"
    ELSE "none"

\* The archive libraries' reading of a payload: one member per payload byte.
\* Member 1 is the executable `tool`, member 2 the executable `bin/bin`; every
\* other byte is a member the library cannot decode.
ArchiveMember(code) ==
    CASE code = 1 -> [ok |-> TRUE, rel |-> <<"tool">>, node |-> FileNode(<<7>>, TRUE)]
      [] code = 2 -> [ok |-> TRUE, rel |-> <<"bin", "bin">>, node |-> FileNode(<<8>>, TRUE)]
      [] OTHER    -> [ok |-> FALSE, rel |-> <<>>, node |-> DirNode]

\* the members archive.unpack(dest) / archive.extract(dest) goes through
ArchiveMembers(bytes) ==
    LET fmt == ArchiveFormat(bytes)
        skip == CASE fmt = "gzip" -> Len(GzipMagic)
                  [] fmt = "xz"   -> Len(XzMagic)
                  [] fmt = "zip"  -> Len(ZipMagic)
                  [] OTHER        -> Len(bytes)
    IN  [i \in 1..(Len(bytes) - skip) |-> ArchiveMember(bytes[skip + i])]

\* tree t after one entry was written at rel (missing parent directories are
\* created, as unpack, extract and create_dir_all do)
WithEntry(t, rel, node) ==
    LET parents == { SubSeq(rel, 1, i) : i \in 1..(Len(rel) - 1) }
        dom == DOMAIN t \cup parents \cup {rel}
    IN  [p \in dom |-> IF p = rel THEN node
                       ELSE IF p \in DOMAIN t THEN t[p]
                       ELSE DirNode]

(***************************************************************************)
(* Binary Locator: is_executable, find_binaries, find_binary_path.         *)
(***************************************************************************)
\* is_executable (unix): a regular file with an execute bit
is_executable(t, rel) == IsFileIn(t, rel) /\ t[rel].exec

SearchDirs == << <<>>, <<"bin">>, <<"usr", "bin">>, <<"usr", "local", "bin">> >>

RECURSIVE AppendNew(_, _)
\* push every name of names that the list does not contain yet
AppendNew(list, names) ==
    IF names = <<>> THEN list
    ELSE AppendNew(IF \E i \in 1..Len(list) : list[i] = Head(names)
                   THEN list ELSE Append(list, Head(names)),
                   Tail(names))

RECURSIVE FindBinariesFrom(_, _, _, _)
FindBinariesFrom(t, order, i, binaries) ==
    IF i > Len(SearchDirs) THEN binaries
    ELSE LET dir == SearchDirs[i]
             listed == ReadDirTree(t, dir, order)
             execs == SelectSeq(listed, LAMBDA n : is_executable(t, Append(dir, n)))
         IN  FindBinariesFrom(t, order, i + 1, AppendNew(binaries, execs))

\* find_binaries: the executables of the four search directories, in search
\* and listing order, each name once
find_binaries(t, order) == FindBinariesFrom(t, order, 1, <<>>)

\* find_binary_path: the first of the four candidates that exists, as a path
\* relative to the package directory, or NoPath
NoPath == <<"none">>
find_binary_path(t, bin_name) ==
    LET cands == [i \in 1..Len(SearchDirs) |-> Append(SearchDirs[i], bin_name)]
        hits == { i \in 1..Len(cands) : cands[i] \in DOMAIN t }
    IN  IF hits = {} THEN NoPath
        ELSE cands[CHOOSE i \in hits : \A j \in hits : i <= j]

(***************************************************************************)
(* The inputs the callers draw from.                                       *)
(***************************************************************************)
\* byte blobs for add_bytes: an opaque executable, a gzip archive with the
\* members `tool` and `bin/bin`, and a gzip archive whose second member is
\* corrupt
OpaqueA == <<1>>
GzGood == <<31, 139, 1, 2>>
GzBad == <<31, 139, 1, 0>>
Blobs == {OpaqueA, GzGood, GzBad}

\* sources for add_path: an executable file, a file with the same bytes that
\* is not executable, a directory with one executable, and a path that does
\* not exist
Source(kind, name, data, exec, tree) ==
    [kind |-> kind, name |-> name, data |-> data, exec |-> exec, tree |-> tree]
SrcFooX == Source("file", "foo", <<1>>, TRUE, EmptyTree)
SrcFooN == Source("file", "foo", <<1>>, FALSE, EmptyTree)
SrcDir == Source("dir", "pkg", <<>>, FALSE, (<<"tool">> :> FileNode(<<7>>, TRUE)))
SrcMissing == Source("missing", "gone", <<>>, FALSE, EmptyTree)
Sources == {SrcFooX, SrcFooN, SrcDir, SrcMissing}


\* every hash a call can name
Hashes == { hash_bytes(b) : b \in Blobs } \cup { hash_path(s, "asc") : s \in Sources }

\* strings that are no digest: store_dir.join("") is store_dir itself, and
\* store_dir.join("..") is the root that holds store_dir and bin_dir
EmptyName == [name |-> ""]
ParentName == [name |-> ".."]

\* every string a query can name
QueryNames == Hashes \cup {EmptyName, ParentName}

\* Option<&str> for add_bytes' expected_hash
None == [some |-> FALSE, val |-> <<>>]
Some(v) == [some |-> TRUE, val |-> v]
ExpectedHashes == {None, Some(hash_bytes(OpaqueA))}

Procs == {"p1"}

(***************************************************************************)
(* State.                                                                  *)
(***************************************************************************)
VARIABLES
    store,    \* store_dir: hash |-> the tree of store_dir/<hash>, for the directories that exist
    bin,      \* bin_dir: name |-> the target of the symlink bin_dir/<name>, for the links that exist
    order,    \* the order in which this filesystem lists a directory
    handles,  \* the StoredPackage values the caller holds
    proc,     \* per process: the call it is in and the call's locals
    calls,    \* how many more calls that change the store the callers will issue
    faults,   \* I/O errors injected so far
    added     \* history: hash |-> the package the last Ok add_bytes or add_path returned
              \* for it, forgotten when gc is called with a keep-set without the hash

vars == <<store, bin, order, handles, proc, calls, faults, added>>

\* paths
StorePath(h) == [hash |-> h, rel |-> <<>>]
Join(path, rel) == [path EXCEPT !.rel = @ \o rel]
BinPath(name) == [link |-> name]

StoredPackage(h, path, binaries) == [hash |-> h, path |-> path, binaries |-> binaries]

\* Path::exists for store_dir.join(hash).join(rel); store_dir and the root
\* exist from with_root on
Exists(path) ==
    \/ /\ path.hash \in DOMAIN store
       /\ path.rel = <<>> \/ path.rel \in DOMAIN store[path.hash]
    \/ /\ path.hash \in {EmptyName, ParentName}
       /\ path.rel = <<>>

\* the root directory as a tree: the directories store and bin, and below
\* bin what the links that resolve point at
RootTree ==
    LET live == { n \in DOMAIN bin : Exists(bin[n]) }
    IN  [q \in {<<"store">>, <<"bin">>} \cup { <<"bin", n>> : n \in live } |->
            IF Len(q) = 1 \/ bin[q[2]].rel = <<>> THEN DirNode
            ELSE store[bin[q[2]].hash][bin[q[2]].rel]]

\* the tree below a store path (empty when the directory does not exist).
\* Below store_dir itself are the hash directories only: no file, and no
\* entry named bin or usr, which is all find_binaries looks for
TreeAt(h) ==
    IF h \in DOMAIN store THEN store[h]
    ELSE IF h = ParentName THEN RootTree
    ELSE EmptyTree

\* results
Ok(v) == [ok |-> TRUE, err |-> "none", val |-> v]
Err(e, info) == [ok |-> FALSE, err |-> e, val |-> info]

Idle ==
    [pc |-> "idle", op |-> "none", arg |-> <<>>, pre |-> <<>>, hash |-> <<>>,
     todo |-> <<>>, names |-> <<>>, cur |-> <<>>, src |-> <<>>, out |-> <<>>,
     res |-> <<>>]

\* Store::with_root on a fresh root: both directories exist and are empty
InitWith(budget) ==
    /\ store = <<>>
    /\ bin = <<>>
    /\ order = "asc"
    /\ handles = {}
    /\ proc = [p \in Procs |-> Idle]
    /\ calls = budget
    /\ faults = 0
    /\ added = <<>>

Init == InitWith(MaxCalls)

\* f without key k, and f with key k set to v
Without(f, k) == [x \in DOMAIN f \ {k} |-> f[x]]
With(f, k, v) == [x \in DOMAIN f \cup {k} |-> IF x = k THEN v ELSE f[x]]

\* process p enters a call (the snapshot `pre` is the state the call started in)
Begin(p, op, arg, pc, locals) ==
    /\ proc[p].pc = "idle"
    /\ calls > 0
    /\ calls' = calls - 1
    /\ proc' = [proc EXCEPT ![p] =
                   [k \in DOMAIN Idle |->
                       IF k \in DOMAIN locals THEN locals[k]
                       ELSE CASE k = "pc"  -> pc
                              [] k = "op"  -> op
                              [] k = "arg" -> arg
                              [] k = "pre" -> [store |-> store, bin |-> bin, faults |-> faults]
                              [] OTHER     -> Idle[k]]]

\* process p goes on inside its call
Goto(p, pc, locals) ==
    proc' = [proc EXCEPT ![p] =
                [k \in DOMAIN Idle |->
                    IF k \in DOMAIN locals THEN locals[k]
                    ELSE IF k = "pc" THEN pc ELSE proc[p][k]]]

\* process p's call returns res
Finish(p, res) ==
    proc' = [proc EXCEPT ![p] =
                [Idle EXCEPT !.pc = "done", !.op = proc[p].op, !.arg = proc[p].arg,
                             !.pre = proc[p].pre, !.res = res]]

\* process p goes to pc, or returns locals.res when pc is "done"
Step(p, pc, locals) ==
    IF pc = "done" THEN Finish(p, locals.res) ELSE Goto(p, pc, locals)

\* an I/O error of the filesystem call of this step
Fault(p, e) ==
    /\ faults < MaxFaults
    /\ faults' = faults + 1
    /\ Finish(p, Err(e, <<>>))

(***************************************************************************)
(* Queries: has, get, list.                                                *)
(***************************************************************************)
\* has: store_dir.join(hash).exists()
has(h) == Exists(StorePath(h))

\* get
get(h) ==
    IF ~Exists(StorePath(h)) THEN None
    ELSE Some(StoredPackage(h, StorePath(h), find_binaries(TreeAt(h), order)))

RECURSIVE SortedHashes(_, _)
SortedHashes(S, descending) ==
    IF S = {} THEN <<>>
    ELSE LET first == CHOOSE h \in S : \A g \in S \ {h} :
                          IF descending THEN BytesLess(g.sha256, h.sha256)
                                        ELSE BytesLess(h.sha256, g.sha256)
         IN  <<first>> \o SortedHashes(S \ {first}, descending)

\* list that does not scan the directories for binaries
listNoScan ==
    LET listed == SortedHashes(DOMAIN store, order = "desc")
    IN  [i \in 1..Len(listed) |-> StoredPackage(listed[i], StorePath(listed[i]), <<>>)]

\* list that misses the first directory entry
listSkipsFirst ==
    LET all == SortedHashes(DOMAIN store, order = "desc")
        listed == IF all = <<>> THEN all ELSE Tail(all)
    IN  [i \in 1..Len(listed) |->
            StoredPackage(listed[i], StorePath(listed[i]),
                          find_binaries(store[listed[i]], order))]

\* list: one package per sub-directory of store_dir, in listing order
list ==
    LET listed == SortedHashes(DOMAIN store, order = "desc")
    IN  [i \in 1..Len(listed) |->
            StoredPackage(listed[i], StorePath(listed[i]),
                          find_binaries(store[listed[i]], order))]

\* the caller keeps a package it was handed, dropping one it holds when it
\* holds MaxHandles already
Keep(pkgs) ==
    \E pkg \in pkgs \ handles :
       \E drop \in SUBSET handles :
          /\ Cardinality(drop) <= 1
          /\ Cardinality(handles \ drop) + 1 <= MaxHandles
          /\ drop # {} => Cardinality(handles) = MaxHandles
          /\ handles' = (handles \ drop) \cup {pkg}

\* The queries read the store in one step and change nothing in it.  A get or
\* list is a step of the model when the caller keeps a package of the result
HasCall(p, h) ==
    /\ proc[p].pc = "idle"
    /\ has(h) \in BOOLEAN
    /\ UNCHANGED vars

GetCall(p, h) ==
    /\ proc[p].pc = "idle"
    /\ get(h).some
    /\ Keep({get(h).val})
    /\ UNCHANGED <<store, bin, order, proc, calls, faults, added>>

ListCall(p) ==
    /\ proc[p].pc = "idle"
    /\ Keep({ list[i] : i \in 1..Len(list) })
    /\ UNCHANGED <<store, bin, order, proc, calls, faults, added>>

(***************************************************************************)
(* add_bytes.                                                              *)
(***************************************************************************)
\* add_bytes that does not test whether the destination exists
AddBytesCallNoExistsTest(p, bytes, expected) ==
    LET hash == hash_bytes(bytes)
        arg == [bytes |-> bytes, expected |-> expected]
    IN  /\ IF expected.some /\ hash # expected.val
           THEN Begin(p, "add_bytes", arg, "done",
                      [res |-> Err("HashMismatch",
                                   [expected |-> expected.val, actual |-> hash])])
           ELSE Begin(p, "add_bytes", arg, "ab_mkdir", [hash |-> hash])
        /\ UNCHANGED <<store, bin, order, handles, faults, added>>

\* add_bytes that never compares the hash with the expected one
AddBytesCallUnverified(p, bytes, expected) ==
    LET hash == hash_bytes(bytes)
    IN  /\ Begin(p, "add_bytes", [bytes |-> bytes, expected |-> expected],
                 IF has(hash) THEN "ab_find" ELSE "ab_mkdir", [hash |-> hash])
        /\ UNCHANGED <<store, bin, order, handles, faults, added>>

\* add_bytes that takes an existing destination for an error
AddBytesCallNoReuse(p, bytes, expected) ==
    LET hash == hash_bytes(bytes)
        arg == [bytes |-> bytes, expected |-> expected]
    IN  /\ IF expected.some /\ hash # expected.val
           THEN Begin(p, "add_bytes", arg, "done",
                      [res |-> Err("HashMismatch",
                                   [expected |-> expected.val, actual |-> hash])])
           ELSE IF has(hash)
                THEN Begin(p, "add_bytes", arg, "done", [res |-> Err("CreateDir", <<>>)])
                ELSE Begin(p, "add_bytes", arg, "ab_mkdir", [hash |-> hash])
        /\ UNCHANGED <<store, bin, order, handles, faults, added>>

\* hash the bytes, compare with the expected hash, and test dest.exists()
AddBytesCall(p, bytes, expected) ==
    LET hash == hash_bytes(bytes)
        arg == [bytes |-> bytes, expected |-> expected]
    IN  /\ IF expected.some /\ hash # expected.val
           THEN Begin(p, "add_bytes", arg, "done",
                      [res |-> Err("HashMismatch",
                                   [expected |-> expected.val, actual |-> hash])])
           ELSE Begin(p, "add_bytes", arg, IF has(hash) THEN "ab_find" ELSE "ab_mkdir",
                      [hash |-> hash])
        /\ UNCHANGED <<store, bin, order, handles, faults, added>>

\* add_bytes creating the directory with a call that fails when it exists
AddBytesMkdirExclusive(p) ==
    LET h == proc[p].hash
        bytes == proc[p].arg.bytes
    IN  /\ proc[p].pc = "ab_mkdir"
        /\ IF h \in DOMAIN store
           THEN /\ Finish(p, Err("CreateDir", <<>>))
                /\ UNCHANGED store
           ELSE /\ store' = With(store, h, EmptyTree)
                /\ IF ArchiveFormat(bytes) = "none"
                   THEN Goto(p, "ab_write", <<>>)
                   ELSE Goto(p, IF ArchiveMembers(bytes) = <<>> THEN "ab_find" ELSE "ab_member",
                             [todo |-> ArchiveMembers(bytes)])
        /\ UNCHANGED <<bin, order, handles, calls, faults, added>>

\* fs::create_dir_all(&dest), then try_unpack_archive sniffs the signature
AddBytesMkdir(p) ==
    LET h == proc[p].hash
        bytes == proc[p].arg.bytes
    IN  /\ proc[p].pc = "ab_mkdir"
        /\ \/ /\ store' = IF h \in DOMAIN store THEN store ELSE With(store, h, EmptyTree)
              /\ IF ArchiveFormat(bytes) = "none"
                 THEN Goto(p, "ab_write", <<>>)
                 ELSE Goto(p, IF ArchiveMembers(bytes) = <<>> THEN "ab_find" ELSE "ab_member",
                           [todo |-> ArchiveMembers(bytes)])
              /\ UNCHANGED faults
           \/ /\ Fault(p, "CreateDir")
              /\ UNCHANGED store
        /\ UNCHANGED <<bin, order, handles, calls, added>>

\* archive.unpack(dest) / archive.extract(dest), one member per step
AddBytesMember(p) ==
    LET h == proc[p].hash
        todo == proc[p].todo
    IN  /\ proc[p].pc = "ab_member"
        /\ \/ /\ Head(todo).ok /\ h \in DOMAIN store
              /\ store' = [store EXCEPT ![h] = WithEntry(@, Head(todo).rel, Head(todo).node)]
              /\ Goto(p, IF Tail(todo) = <<>> THEN "ab_find" ELSE "ab_member",
                      [todo |-> Tail(todo)])
              /\ UNCHANGED faults
           \/ /\ ~(Head(todo).ok /\ h \in DOMAIN store)
              /\ Finish(p, Err("Unpack", <<>>))
              /\ UNCHANGED <<store, faults>>
           \/ /\ Fault(p, "Unpack")
              /\ UNCHANGED store
        /\ UNCHANGED <<bin, order, handles, calls, added>>

\* fs::write(&bin_path, bytes)
AddBytesWrite(p) ==
    LET h == proc[p].hash
    IN  /\ proc[p].pc = "ab_write"
        /\ \/ /\ h \in DOMAIN store
              /\ store' = [store EXCEPT ![h] =
                              WithEntry(@, <<"bin">>,
                                        FileNode(proc[p].arg.bytes,
                                                 is_executable(@, <<"bin">>)))]
              /\ Goto(p, "ab_chmod", <<>>)
              /\ UNCHANGED faults
           \/ /\ h \notin DOMAIN store
              /\ Finish(p, Err("WriteFile", <<>>))
              /\ UNCHANGED <<store, faults>>
           \/ /\ Fault(p, "WriteFile")
              /\ UNCHANGED store
        /\ UNCHANGED <<bin, order, handles, calls, added>>

\* add_bytes that leaves `bin` with the mode fs::write gave it
AddBytesChmodSkipped(p) ==
    /\ proc[p].pc = "ab_chmod"
    /\ Goto(p, "ab_find", <<>>)
    /\ UNCHANGED <<store, bin, order, handles, calls, faults, added>>

\* fs::set_permissions(&bin_path, 0o755)
AddBytesChmod(p) ==
    LET h == proc[p].hash
    IN  /\ proc[p].pc = "ab_chmod"
        /\ \/ /\ Exists(Join(StorePath(h), <<"bin">>))
              /\ store' = [store EXCEPT ![h][<<"bin">>].exec = TRUE]
              /\ Goto(p, "ab_find", <<>>)
              /\ UNCHANGED faults
           \/ /\ ~Exists(Join(StorePath(h), <<"bin">>))
              /\ Finish(p, Err("WriteFile", <<>>))
              /\ UNCHANGED <<store, faults>>
           \/ /\ Fault(p, "WriteFile")
              /\ UNCHANGED store
        /\ UNCHANGED <<bin, order, handles, calls, added>>

\* add_bytes that returns the package without scanning it for binaries
AddBytesFindNoScan(p) ==
    LET h == proc[p].hash
    IN  /\ proc[p].pc = "ab_find"
        /\ Finish(p, Ok(StoredPackage(h, StorePath(h), <<>>)))
        /\ UNCHANGED <<store, bin, order, handles, calls, faults, added>>

\* let binaries = self.find_binaries(&dest); Ok(StoredPackage { .. })
AddBytesFind(p) ==
    LET h == proc[p].hash
    IN  /\ proc[p].pc = "ab_find"
        /\ Finish(p, Ok(StoredPackage(h, StorePath(h), find_binaries(TreeAt(h), order))))
        /\ UNCHANGED <<store, bin, order, handles, calls, faults, added>>

(***************************************************************************)
(* add_path.                                                               *)
(***************************************************************************)
RECURSIVE CopyPlan(_, _, _)
RECURSIVE CopyPlanEntries(_, _, _, _)
\* what copy_dir_all(src, dst) creates, in its order: the directory itself,
\* then every entry in listing order, a sub-directory by the recursive call
CopyPlan(t, dir, ord) ==
    <<[rel |-> dir, node |-> DirNode]>> \o CopyPlanEntries(t, dir, ord, ReadDirTree(t, dir, ord))

CopyPlanEntries(t, dir, ord, entries) ==
    IF entries = <<>> THEN <<>>
    ELSE LET path == Append(dir, Head(entries))
         IN  (IF t[path].k = "dir" THEN CopyPlan(t, path, ord)
              ELSE <<[rel |-> path, node |-> t[path]]>>)
             \o CopyPlanEntries(t, dir, ord, Tail(entries))

\* let hash = hash_path(source)?, then the test dest.exists()
AddPathCall(p, source) ==
    LET hash == hash_path(source, order)
        pc == IF has(hash) THEN "ap_find"
              ELSE IF source.kind = "dir" THEN "ap_copydir" ELSE "ap_mkdir"
    IN  /\ \/ /\ Begin(p, "add_path", source, pc,
                       [hash |-> hash, todo |-> CopyPlan(source.tree, <<>>, order)])
              /\ UNCHANGED faults
           \/ /\ source.kind # "missing"
              /\ faults < MaxFaults
              /\ faults' = faults + 1
              /\ Begin(p, "add_path", source, "done", [res |-> Err("ReadFile", <<>>)])
        /\ UNCHANGED <<store, bin, order, handles, added>>

\* copy_dir_all(source, &dest): one create_dir_all or fs::copy per step
AddPathCopyDir(p) ==
    LET h == proc[p].hash
        todo == proc[p].todo
    IN  /\ proc[p].pc = "ap_copydir"
        /\ \/ /\ Head(todo).rel = <<>>
              /\ store' = IF h \in DOMAIN store THEN store ELSE With(store, h, EmptyTree)
              /\ Goto(p, IF Tail(todo) = <<>> THEN "ap_find" ELSE "ap_copydir",
                      [todo |-> Tail(todo)])
              /\ UNCHANGED faults
           \/ /\ Head(todo).rel # <<>> /\ h \in DOMAIN store
              /\ store' = [store EXCEPT ![h] = WithEntry(@, Head(todo).rel, Head(todo).node)]
              /\ Goto(p, IF Tail(todo) = <<>> THEN "ap_find" ELSE "ap_copydir",
                      [todo |-> Tail(todo)])
              /\ UNCHANGED faults
           \/ /\ Head(todo).rel # <<>> /\ h \notin DOMAIN store
              /\ Finish(p, Err("WriteFile", <<>>))
              /\ UNCHANGED <<store, faults>>
           \/ /\ Fault(p, IF Head(todo).node.k = "dir" THEN "CreateDir" ELSE "WriteFile")
              /\ UNCHANGED store
        /\ UNCHANGED <<bin, order, handles, calls, added>>

\* fs::create_dir_all(&dest) for a source that is not a directory
AddPathMkdir(p) ==
    LET h == proc[p].hash
    IN  /\ proc[p].pc = "ap_mkdir"
        /\ \/ /\ store' = IF h \in DOMAIN store THEN store ELSE With(store, h, EmptyTree)
              /\ Goto(p, "ap_copyfile", [todo |-> <<>>])
              /\ UNCHANGED faults
           \/ /\ Fault(p, "CreateDir")
              /\ UNCHANGED store
        /\ UNCHANGED <<bin, order, handles, calls, added>>

\* fs::copy(source, dest.join(file_name)): bytes and permission bits; it
\* fails when the source cannot be read
AddPathCopyFile(p) ==
    LET h == proc[p].hash
        source == proc[p].arg
    IN  /\ proc[p].pc = "ap_copyfile"
        /\ \/ /\ source.kind = "file" /\ h \in DOMAIN store
              /\ store' = [store EXCEPT ![h] =
                              WithEntry(@, <<source.name>>, FileNode(source.data, source.exec))]
              /\ Goto(p, "ap_find", <<>>)
              /\ UNCHANGED faults
           \/ /\ ~(source.kind = "file" /\ h \in DOMAIN store)
              /\ Finish(p, Err("WriteFile", <<>>))
              /\ UNCHANGED <<store, faults>>
           \/ /\ source.kind = "file"
              /\ Fault(p, "WriteFile")
              /\ UNCHANGED store
        /\ UNCHANGED <<bin, order, handles, calls, added>>

\* let binaries = self.find_binaries(&dest); Ok(StoredPackage { .. })
AddPathFind(p) ==
    LET h == proc[p].hash
    IN  /\ proc[p].pc = "ap_find"
        /\ Finish(p, Ok(StoredPackage(h, StorePath(h), find_binaries(TreeAt(h), order))))
        /\ UNCHANGED <<store, bin, order, handles, calls, faults, added>>

(***************************************************************************)
(* activate, deactivate.                                                   *)
(***************************************************************************)
\* Path::exists follows the link; symlink_metadata does not
LinkExists(name) == name \in DOMAIN bin /\ Exists(bin[name])
LinkMetadataOk(name) == name \in DOMAIN bin

\* where activate's loop goes with the names left: to the next name, or out
ActivateLoop(names, activated) ==
    IF names = <<>> THEN [pc |-> "done", names |-> <<>>, src |-> <<>>, res |-> Ok(activated)]
    ELSE [pc |-> "act_resolve", names |-> names, src |-> <<>>, out |-> activated]

ActivateCall(p, pkg) ==
    LET to == ActivateLoop(pkg.binaries, <<>>)
    IN  /\ Begin(p, "activate", pkg, to.pc, to)
        /\ UNCHANGED <<store, bin, order, handles, faults, added>>

\* activate that leaves a name alone when bin_dir already has a link for it
ActivateResolveFirstWins(p) ==
    LET pkg == proc[p].arg
        names == proc[p].names
        rel == find_binary_path(TreeAt(pkg.path.hash), Head(names))
        to == ActivateLoop(Tail(names), proc[p].out)
    IN  /\ proc[p].pc = "act_resolve"
        /\ IF rel = NoPath \/ ~has(pkg.path.hash) \/ LinkMetadataOk(Head(names))
           THEN Step(p, to.pc, to)
           ELSE Goto(p, "act_symlink", [src |-> Join(pkg.path, rel)])
        /\ UNCHANGED <<store, bin, order, handles, calls, faults, added>>

\* activate that creates the link without removing the one that is there
ActivateResolveNoUnlink(p) ==
    LET pkg == proc[p].arg
        names == proc[p].names
        rel == find_binary_path(TreeAt(pkg.path.hash), Head(names))
        to == ActivateLoop(Tail(names), proc[p].out)
    IN  /\ proc[p].pc = "act_resolve"
        /\ IF rel = NoPath \/ ~has(pkg.path.hash) THEN Step(p, to.pc, to)
           ELSE Goto(p, "act_symlink", [src |-> Join(pkg.path, rel)])
        /\ UNCHANGED <<store, bin, order, handles, calls, faults, added>>

\* activate that fails with NotFound for a name it cannot resolve
ActivateResolveStrict(p) ==
    LET pkg == proc[p].arg
        names == proc[p].names
        rel == find_binary_path(TreeAt(pkg.path.hash), Head(names))
    IN  /\ proc[p].pc = "act_resolve"
        /\ IF rel = NoPath \/ ~has(pkg.path.hash)
           THEN Finish(p, Err("NotFound", Head(names)))
           ELSE Goto(p, IF LinkExists(Head(names)) \/ LinkMetadataOk(Head(names))
                        THEN "act_unlink" ELSE "act_symlink",
                     [src |-> Join(pkg.path, rel)])
        /\ UNCHANGED <<store, bin, order, handles, calls, faults, added>>

\* find_binary_path for the next name and, when it resolves, the test whether
\* the link exists
ActivateResolve(p) ==
    LET pkg == proc[p].arg
        names == proc[p].names
        rel == find_binary_path(TreeAt(pkg.path.hash), Head(names))
        to == ActivateLoop(Tail(names), proc[p].out)
    IN  /\ proc[p].pc = "act_resolve"
        /\ IF rel = NoPath \/ ~has(pkg.path.hash) THEN Step(p, to.pc, to)
           ELSE Goto(p, IF LinkExists(Head(names)) \/ LinkMetadataOk(Head(names))
                        THEN "act_unlink" ELSE "act_symlink",
                     [src |-> Join(pkg.path, rel)])
        /\ UNCHANGED <<store, bin, order, handles, calls, faults, added>>

\* activate that puts the new link over the old one in one step
ActivateUnlinkReplaces(p) ==
    LET name == Head(proc[p].names)
        to == ActivateLoop(Tail(proc[p].names), Append(proc[p].out, BinPath(name)))
    IN  /\ proc[p].pc = "act_unlink"
        /\ bin' = With(bin, name, proc[p].src)
        /\ Step(p, to.pc, to)
        /\ UNCHANGED <<store, order, handles, calls, faults, added>>

\* fs::remove_file(&link)
ActivateUnlink(p) ==
    LET name == Head(proc[p].names)
    IN  /\ proc[p].pc = "act_unlink"
        /\ \/ /\ name \in DOMAIN bin
              /\ bin' = Without(bin, name)
              /\ Goto(p, "act_symlink", <<>>)
              /\ UNCHANGED faults
           \/ /\ name \notin DOMAIN bin
              /\ Finish(p, Err("WriteFile", <<>>))
              /\ UNCHANGED <<bin, faults>>
           \/ /\ Fault(p, "WriteFile")
              /\ UNCHANGED bin
        /\ UNCHANGED <<store, order, handles, calls, added>>

\* activate that tests the resolved path again before it links to it
ActivateSymlinkChecked(p) ==
    LET name == Head(proc[p].names)
        to == ActivateLoop(Tail(proc[p].names), Append(proc[p].out, BinPath(name)))
    IN  /\ proc[p].pc = "act_symlink"
        /\ IF name \notin DOMAIN bin /\ Exists(proc[p].src)
           THEN /\ bin' = With(bin, name, proc[p].src)
                /\ Step(p, to.pc, to)
           ELSE /\ Finish(p, Err("WriteFile", <<>>))
                /\ UNCHANGED bin
        /\ UNCHANGED <<store, order, handles, calls, faults, added>>

\* symlink(&source, &link); activated.push(link)
ActivateSymlink(p) ==
    LET name == Head(proc[p].names)
        to == ActivateLoop(Tail(proc[p].names), Append(proc[p].out, BinPath(name)))
    IN  /\ proc[p].pc = "act_symlink"
        /\ \/ /\ name \notin DOMAIN bin
              /\ bin' = With(bin, name, proc[p].src)
              /\ Step(p, to.pc, to)
              /\ UNCHANGED faults
           \/ /\ name \in DOMAIN bin
              /\ Finish(p, Err("WriteFile", <<>>))
              /\ UNCHANGED <<bin, faults>>
           \/ /\ Fault(p, "WriteFile")
              /\ UNCHANGED bin
        /\ UNCHANGED <<store, order, handles, calls, added>>

\* where deactivate's loop goes with the names left: to the next name, or out
\* (back to its caller, or on to gc's remove_dir_all)
DeactivateLoop(op, names) ==
    IF names # <<>> THEN [pc |-> "de_check", names |-> names]
    ELSE IF op = "gc" THEN [pc |-> "gc_rmdir", names |-> <<>>]
    ELSE [pc |-> "done", names |-> <<>>, res |-> Ok(<<>>)]

DeactivateCall(p, pkg) ==
    LET to == DeactivateLoop("deactivate", pkg.binaries)
    IN  /\ Begin(p, "deactivate", pkg, to.pc, to)
        /\ UNCHANGED <<store, bin, order, handles, faults, added>>

\* deactivate that removes the link without testing that it is there
DeactivateCheckAlwaysUnlink(p) ==
    /\ proc[p].pc = "de_check"
    /\ Goto(p, "de_unlink", <<>>)
    /\ UNCHANGED <<store, bin, order, handles, calls, faults, added>>

\* if link.symlink_metadata().is_ok()
DeactivateCheck(p) ==
    LET names == proc[p].names
        to == DeactivateLoop(proc[p].op, Tail(names))
    IN  /\ proc[p].pc = "de_check"
        /\ IF LinkMetadataOk(Head(names)) THEN Goto(p, "de_unlink", <<>>)
           ELSE Step(p, to.pc, to)
        /\ UNCHANGED <<store, bin, order, handles, calls, faults, added>>

\* fs::remove_file(&link)
DeactivateUnlink(p) ==
    LET name == Head(proc[p].names)
        to == DeactivateLoop(proc[p].op, Tail(proc[p].names))
    IN  /\ proc[p].pc = "de_unlink"
        /\ \/ /\ name \in DOMAIN bin
              /\ bin' = Without(bin, name)
              /\ Step(p, to.pc, to)
              /\ UNCHANGED faults
           \/ /\ name \notin DOMAIN bin
              /\ Finish(p, Err("WriteFile", <<>>))
              /\ UNCHANGED <<bin, faults>>
           \/ /\ Fault(p, "WriteFile")
              /\ UNCHANGED bin
        /\ UNCHANGED <<store, order, handles, calls, added>>

(***************************************************************************)
(* gc.                                                                     *)
(***************************************************************************)
\* the keep-sets the callers pass: nothing, one stored hash, or all of them
KeepSets == { K \in SUBSET DOMAIN store : Cardinality(K) <= 1 \/ K = DOMAIN store }

\* the test of gc's loop, inverted
GcKeepsInverted(keep_hashes, pkg) == pkg.hash \notin keep_hashes

\* if !keep_hashes.contains(&pkg.hash)
GcKeeps(keep_hashes, pkg) == pkg.hash \in keep_hashes

RECURSIVE GcSkipKept(_, _)
\* the packages of gc's loop from the first one it does not keep
GcSkipKept(keep_hashes, pkgs) ==
    IF pkgs = <<>> \/ ~GcKeeps(keep_hashes, Head(pkgs)) THEN pkgs
    ELSE GcSkipKept(keep_hashes, Tail(pkgs))

\* where gc's loop goes with the packages left: into deactivate for the next
\* package it does not keep, or out
GcLoop(keep_hashes, pkgs, removed) ==
    LET rest == GcSkipKept(keep_hashes, pkgs)
    IN  IF rest = <<>>
        THEN [pc |-> "done", todo |-> <<>>, cur |-> <<>>, res |-> Ok(removed)]
        ELSE [todo |-> rest, cur |-> Head(rest), out |-> removed]
             @@ DeactivateLoop("gc", Head(rest).binaries)

\* for pkg in self.list()?
GcCall(p, keep_hashes) ==
    LET to == GcLoop(keep_hashes, list, <<>>)
    IN  /\ \/ /\ Begin(p, "gc", keep_hashes, to.pc, to)
              /\ UNCHANGED faults
           \/ /\ faults < MaxFaults
              /\ faults' = faults + 1
              /\ Begin(p, "gc", keep_hashes, "done", [res |-> Err("ReadFile", <<>>)])
        /\ added' = [h \in DOMAIN added \cap keep_hashes |-> added[h]]
        /\ UNCHANGED <<store, bin, order, handles>>

\* fs::remove_dir_all(&pkg.path); removed.push(pkg.hash).  When it fails it
\* may have deleted the directory's entries already
GcRemoveDir(p) ==
    LET h == proc[p].cur.path.hash
        to == GcLoop(proc[p].arg, Tail(proc[p].todo), Append(proc[p].out, proc[p].cur.hash))
    IN  /\ proc[p].pc = "gc_rmdir"
        /\ \/ /\ h \in DOMAIN store
              /\ store' = Without(store, h)
              /\ Step(p, to.pc, to)
              /\ UNCHANGED faults
           \/ /\ h \notin DOMAIN store
              /\ Finish(p, Err("WriteFile", <<>>))
              /\ UNCHANGED <<store, faults>>
           \/ /\ h \in DOMAIN store
              /\ Fault(p, "WriteFile")
              /\ \E left \in {store[h], EmptyTree} : store' = [store EXCEPT ![h] = left]
        /\ UNCHANGED <<bin, order, handles, calls, added>>

\* the caller takes the result of a call; it may keep the package of an Ok
Return(p) ==
    /\ proc[p].pc = "done"
    /\ proc' = [proc EXCEPT ![p] = Idle]
    /\ IF proc[p].res.ok /\ proc[p].op \in {"add_bytes", "add_path"}
       THEN /\ Keep({proc[p].res.val}) \/ UNCHANGED handles
            /\ added' = With(added, proc[p].res.val.hash, proc[p].res.val)
       ELSE UNCHANGED <<handles, added>>
    /\ UNCHANGED <<store, bin, order, calls, faults>>

\* a process may enter a call when no call is running (the callers serialize)
Quiescent == \A p \in Procs : proc[p].pc = "idle"

Next ==
    \E p \in Procs :
        \/ Quiescent /\ \E h \in Hashes : HasCall(p, h)
        \/ Quiescent /\ \E h \in Hashes : GetCall(p, h)
        \/ Quiescent /\ ListCall(p)
        \/ Quiescent /\ \E b \in Blobs, e \in ExpectedHashes : AddBytesCall(p, b, e)
        \/ AddBytesMkdir(p)
        \/ AddBytesMember(p)
        \/ AddBytesWrite(p)
        \/ AddBytesChmod(p)
        \/ AddBytesFind(p)
        \/ Quiescent /\ \E source \in Sources : AddPathCall(p, source)
        \/ AddPathCopyDir(p)
        \/ AddPathMkdir(p)
        \/ AddPathCopyFile(p)
        \/ AddPathFind(p)
        \/ Quiescent /\ \E pkg \in handles : ActivateCall(p, pkg)
        \/ ActivateResolve(p)
        \/ ActivateUnlink(p)
        \/ ActivateSymlink(p)
        \/ Quiescent /\ \E pkg \in handles : DeactivateCall(p, pkg)
        \/ DeactivateCheck(p)
        \/ DeactivateUnlink(p)
        \/ Quiescent /\ \E keep_hashes \in KeepSets : GcCall(p, keep_hashes)
        \/ GcRemoveDir(p)
        \/ Return(p)

Spec == Init /\ [][Next]_vars

\* the same store, with callers that issue MaxCallsDeep calls
InitDeep == InitWith(MaxCallsDeep)
SpecDeep == InitDeep /\ [][Next]_vars

(***************************************************************************)
(* add_bytes over blobs of every shape around the three signatures.        *)
(***************************************************************************)
RECURSIVE SeqsUpTo(_, _)
\* the sequences over S of length at most n
SeqsUpTo(S, n) ==
    IF n = 0 THEN {<<>>}
    ELSE LET shorter == SeqsUpTo(S, n - 1)
         IN  shorter \cup { Append(q, x) : q \in shorter, x \in S }

\* every prefix of a signature (none of it, a part, all of it) followed by at
\* most MaxPayload bytes that are a member the library decodes (1) or not (0)
SniffBlobs ==
    LET Prefixes(sig) == { SubSeq(sig, 1, k) : k \in 0..Len(sig) }
    IN  { head \o tail :
            head \in Prefixes(GzipMagic) \cup Prefixes(XzMagic) \cup Prefixes(ZipMagic),
            tail \in SeqsUpTo({0, 1}, MaxPayload) }

InitSniff == InitWith(MaxSniffCalls)

NextSniff ==
    \E p \in Procs :
        \/ Quiescent /\ \E b \in SniffBlobs : AddBytesCall(p, b, None)
        \/ AddBytesMkdir(p)
        \/ AddBytesMember(p)
        \/ AddBytesWrite(p)
        \/ AddBytesChmod(p)
        \/ AddBytesFind(p)
        \/ Return(p)

SpecSniff == InitSniff /\ [][NextSniff]_vars

(***************************************************************************)
(* add_path over files and directory trees, on filesystems that list       *)
(* directories in either order.                                            *)
(***************************************************************************)
Orders == {"asc", "desc"}

\* file contents: nothing, one byte, and the bytes of the name `tool`
HashData == {<<>>, <<1>>, NameBytes("tool")}

\* the trees with files named foo and tool, or none, in the root
FlatTrees ==
    UNION { [ { <<n>> : n \in N } -> { FileNode(d, e) : d \in HashData, e \in BOOLEAN } ] :
              N \in SUBSET {"foo", "tool"} }

\* tree t as the directory `name` of a tree
Under(name, t) ==
    [q \in {<<name>>} \cup { <<name>> \o r : r \in DOMAIN t } |->
        IF q = <<name>> THEN DirNode ELSE t[Tail(q)]]

HashTrees == FlatTrees \cup { Under("usr", t) : t \in FlatTrees }

HashSources ==
    { Source("dir", "pkg", <<>>, FALSE, t) : t \in HashTrees }
    \cup { Source("file", "foo", d, e, EmptyTree) : d \in HashData, e \in BOOLEAN }
    \cup {SrcMissing}

InitHash ==
    /\ store = <<>>
    /\ bin = <<>>
    /\ order \in Orders
    /\ handles = {}
    /\ proc = [p \in Procs |-> Idle]
    /\ calls = MaxHashCalls
    /\ faults = 0
    /\ added = <<>>

NextHash ==
    \E p \in Procs :
        \/ Quiescent /\ \E source \in HashSources : AddPathCall(p, source)
        \/ AddPathCopyDir(p)
        \/ AddPathMkdir(p)
        \/ AddPathCopyFile(p)
        \/ AddPathFind(p)
        \/ Return(p)

SpecHash == InitHash /\ [][NextHash]_vars

(***************************************************************************)
(* Two processes on one store root calling add_bytes with no lock between  *)
(* them: their filesystem steps interleave freely.                         *)
(***************************************************************************)
Racers == {"p1", "p2"}

InitRace ==
    /\ store = <<>>
    /\ bin = <<>>
    /\ order = "asc"
    /\ handles = {}
    /\ proc = [p \in Racers |-> Idle]
    /\ calls = MaxRaceCalls
    /\ faults = 0
    /\ added = <<>>

NextRace ==
    \E p \in Racers :
        \/ \E b \in Blobs : AddBytesCall(p, b, None)
        \/ AddBytesMkdir(p)
        \/ AddBytesMember(p)
        \/ AddBytesWrite(p)
        \/ AddBytesChmod(p)
        \/ AddBytesFind(p)
        \/ Return(p)

SpecRace == InitRace /\ [][NextRace]_vars

(***************************************************************************)
(* Two processes on one store root that add, activate, deactivate and      *)
(* collect with no lock between them.                                      *)
(***************************************************************************)
InitLinks ==
    /\ store = <<>>
    /\ bin = <<>>
    /\ order = "asc"
    /\ handles = {}
    /\ proc = [p \in Racers |-> Idle]
    /\ calls = MaxLinkCalls
    /\ faults = 0
    /\ added = <<>>

NextLinks ==
    \E p \in Racers :
        \/ \E b \in {OpaqueA, GzGood} : AddBytesCall(p, b, None)
        \/ AddBytesMkdir(p)
        \/ AddBytesMember(p)
        \/ AddBytesWrite(p)
        \/ AddBytesChmod(p)
        \/ AddBytesFind(p)
        \/ \E pkg \in handles : ActivateCall(p, pkg)
        \/ ActivateResolve(p)
        \/ ActivateUnlink(p)
        \/ ActivateSymlink(p)
        \/ \E pkg \in handles : DeactivateCall(p, pkg)
        \/ DeactivateCheck(p)
        \/ DeactivateUnlink(p)
        \/ \E keep_hashes \in KeepSets : GcCall(p, keep_hashes)
        \/ GcRemoveDir(p)
        \/ Return(p)

SpecLinks == InitLinks /\ [][NextLinks]_vars

(***************************************************************************)
(* Two processes on one store root, one activating while the other         *)
(* collects.                                                               *)
(***************************************************************************)
InitGcRace ==
    /\ store = <<>>
    /\ bin = <<>>
    /\ order = "asc"
    /\ handles = {}
    /\ proc = [p \in Racers |-> Idle]
    /\ calls = MaxGcRaceCalls
    /\ faults = 0
    /\ added = <<>>

NextGcRace ==
    \E p \in Racers :
        \/ \E b \in {OpaqueA, GzGood} : AddBytesCall(p, b, None)
        \/ AddBytesMkdir(p)
        \/ AddBytesMember(p)
        \/ AddBytesWrite(p)
        \/ AddBytesChmod(p)
        \/ AddBytesFind(p)
        \/ \E pkg \in handles : ActivateCall(p, pkg)
        \/ ActivateResolve(p)
        \/ ActivateUnlink(p)
        \/ ActivateSymlink(p)
        \/ DeactivateCheck(p)
        \/ DeactivateUnlink(p)
        \/ \E keep_hashes \in KeepSets : GcCall(p, keep_hashes)
        \/ GcRemoveDir(p)
        \/ Return(p)

SpecGcRace == InitGcRace /\ [][NextGcRace]_vars

(***************************************************************************)
(* The queries has, get and list called with any string, between adds.     *)
(***************************************************************************)
InitQuery == InitWith(MaxQueryCalls)

NextQuery ==
    \E p \in Procs :
        \/ Quiescent /\ \E h \in QueryNames : HasCall(p, h)
        \/ Quiescent /\ \E h \in QueryNames : GetCall(p, h)
        \/ Quiescent /\ ListCall(p)
        \/ Quiescent /\ \E b \in Blobs : AddBytesCall(p, b, None)
        \/ AddBytesMkdir(p)
        \/ AddBytesMember(p)
        \/ AddBytesWrite(p)
        \/ AddBytesChmod(p)
        \/ AddBytesFind(p)
        \/ Return(p)

SpecQuery == InitQuery /\ [][NextQuery]_vars

(***************************************************************************)
(* Properties.                                                             *)
(***************************************************************************)
Range(seq) == { seq[i] : i \in 1..Len(seq) }

\* the call process p is in or has just returned from
InCall(p, op) == proc[p].op = op
Returned(p, op) == proc[p].pc = "done" /\ proc[p].op = op

\* the hash an add_bytes or add_path call computes
HashOfCall(p) ==
    IF proc[p].op = "add_bytes" THEN hash_bytes(proc[p].arg.bytes)
    ELSE hash_path(proc[p].arg, order)

\* C1: while gc(K) runs and after it returned, Ok or with an error, every
\* directory content_dir/<h> with h in K that existed when gc was called
\* exists with the contents it had then.
GcSparesKeepSet ==
    \A p \in Procs :
        InCall(p, "gc") =>
            \A h \in proc[p].arg \cap DOMAIN proc[p].pre.store :
                h \in DOMAIN store /\ store[h] = proc[p].pre.store[h]

\* a gc that kept a stored hash, changed the store and then returned an error
GcFailedPartWay ==
    \E p \in Procs :
        /\ Returned(p, "gc") /\ ~proc[p].res.ok
        /\ proc[p].arg \cap DOMAIN proc[p].pre.store # {}
        /\ store # proc[p].pre.store

\* C2: add_bytes(b, Some(e)) with e other than the digest of b returns
\* HashMismatch with e as expected and the digest as actual, and neither the
\* content directory nor the bin directory differs from before the call.
HashMismatchChangesNothing ==
    \A p \in Procs :
        (/\ InCall(p, "add_bytes")
         /\ proc[p].arg.expected.some
         /\ proc[p].arg.expected.val # hash_bytes(proc[p].arg.bytes))
        => /\ proc[p].pc = "done"
           /\ proc[p].res = Err("HashMismatch",
                                [expected |-> proc[p].arg.expected.val,
                                 actual |-> hash_bytes(proc[p].arg.bytes)])
           /\ store = proc[p].pre.store
           /\ bin = proc[p].pre.bin

\* a hash mismatch for bytes whose digest is not stored
HashMismatchReturned ==
    \E p \in Procs :
        /\ Returned(p, "add_bytes")
        /\ proc[p].res.err = "HashMismatch"
        /\ ~has(proc[p].res.val.actual)
        /\ store # <<>>

\* no filesystem call of the call p is in has failed with an I/O error
NoIoError(p) == faults = proc[p].pre.faults

\* C3: an add_bytes(b, None) or add_path(source) whose hash an earlier add
\* returned Ok for (with no gc that drops the hash in between) changes
\* nothing in the content directory and, the source being readable, returns
\* Ok with the package the earlier add returned.
AddIsIdempotent ==
    \A p \in Procs :
        (/\ \/ Returned(p, "add_bytes") /\ ~proc[p].arg.expected.some
            \/ Returned(p, "add_path")
         /\ HashOfCall(p) \in DOMAIN added)
        => /\ NoIoError(p) => proc[p].res = Ok(added[HashOfCall(p)])
           /\ proc[p].op = "add_bytes" => proc[p].res.ok
           /\ store = proc[p].pre.store

\* a second add_bytes of bytes that were added before has returned
AddedTwice ==
    \E p \in Procs :
        /\ Returned(p, "add_bytes") /\ ~proc[p].arg.expected.some
        /\ HashOfCall(p) \in DOMAIN added
        /\ proc[p].res.ok

RECURSIVE UnpackAll(_, _)
\* the tree with every member of the list extracted
UnpackAll(t, members) ==
    IF members = <<>> THEN t
    ELSE UnpackAll(WithEntry(t, Head(members).rel, Head(members).node), Tail(members))

\* the complete material of hash h: the full extraction of an archive with
\* that digest, the single executable `bin` of an opaque blob with that
\* digest, or the full copy of a source with that hash
Material(h) ==
    { UnpackAll(EmptyTree, ArchiveMembers(b)) :
        b \in { x \in Blobs : /\ hash_bytes(x) = h
                              /\ ArchiveFormat(x) # "none"
                              /\ \A i \in 1..Len(ArchiveMembers(x)) : ArchiveMembers(x)[i].ok } }
    \cup { (<<"bin">> :> FileNode(b, TRUE)) :
             b \in { x \in Blobs : hash_bytes(x) = h /\ ArchiveFormat(x) = "none" } }
    \cup { (<<s.name>> :> FileNode(s.data, s.exec)) :
             s \in { x \in Sources : hash_path(x, order) = h /\ x.kind = "file" } }
    \cup { s.tree : s \in { x \in Sources : hash_path(x, order) = h /\ x.kind = "dir" } }

\* C4: between calls, every directory content_dir/<h> holds exactly the
\* complete material whose hash is h.
StoredIsComplete ==
    Quiescent => \A h \in DOMAIN store : store[h] \in Material(h)

\* C5: when add_bytes returns an unpack error, the digest of the bytes is
\* not stored afterwards.
FailedUnpackNotStored ==
    \A p \in Procs :
        (Returned(p, "add_bytes") /\ proc[p].res.err = "Unpack")
        => ~has(hash_bytes(proc[p].arg.bytes))

\* C6: in every state, also inside gc and activate, every link of the bin
\* directory resolves to an entry that exists below the content directory.
NoDanglingLink ==
    \A name \in DOMAIN bin : Exists(bin[name])

\* C7: when gc(K) returns Ok(removed), removed holds exactly the hashes
\* stored before the call that are not in K, each once, and none of them
\* is stored afterwards.
GcReturnsRemoved ==
    \A p \in Procs :
        (Returned(p, "gc") /\ proc[p].res.ok)
        => /\ Range(proc[p].res.val) = DOMAIN proc[p].pre.store \ proc[p].arg
           /\ Cardinality(Range(proc[p].res.val)) = Len(proc[p].res.val)
           /\ \A h \in Range(proc[p].res.val) : ~has(h)

\* with two packages stored, a gc that keeps one has returned the other
GcRemovedOneOfTwo ==
    \E p \in Procs :
        /\ Returned(p, "gc") /\ proc[p].res.ok
        /\ Cardinality(DOMAIN proc[p].pre.store) = 2
        /\ Cardinality(proc[p].arg) = 1
        /\ Len(proc[p].res.val) = 1
        /\ DOMAIN store = proc[p].arg

\* C8: after gc(K) returned Ok, no link of the bin directory that pointed
\* into a removed package before the call is left.
GcRemovesLinks ==
    \A p \in Procs :
        (Returned(p, "gc") /\ proc[p].res.ok)
        => \A name \in DOMAIN proc[p].pre.bin :
               proc[p].pre.bin[name].hash \in Range(proc[p].res.val)
               => name \notin DOMAIN bin

\* C9: when add_bytes returns a package, its hash h is the digest of the
\* bytes, has(h) holds and get(h) is that package, at content_dir/<h>; and
\* from then on, until a gc is called whose keep-set lacks h, has(h) holds
\* and get(h) is the package the add returned.
RoundTrip ==
    /\ \A p \in Procs :
          (Returned(p, "add_bytes") /\ proc[p].res.ok)
          => /\ proc[p].res.val.hash = hash_bytes(proc[p].arg.bytes)
             /\ proc[p].res.val.path = StorePath(proc[p].res.val.hash)
             /\ has(proc[p].res.val.hash)
             /\ get(proc[p].res.val.hash) = Some(proc[p].res.val)
    /\ \A h \in DOMAIN added :
          /\ added[h].hash = h
          /\ added[h].path = StorePath(h)
          /\ has(h)
          /\ get(h) = Some(added[h])

\* a package an add returned is still there after a gc that kept it and
\* removed another one
KeptThroughGc ==
    \E p \in Procs :
        /\ Returned(p, "gc") /\ proc[p].res.ok
        /\ proc[p].res.val # <<>>
        /\ DOMAIN added # {}

\* C10: after activate(pkg) returned Ok, for every name of pkg.binaries whose
\* path resolves, bin_dir/<name> is a link to that path inside pkg.path.
ActivateLinksResolved ==
    \A p \in Procs :
        (Returned(p, "activate") /\ proc[p].res.ok)
        => \A i \in 1..Len(proc[p].arg.binaries) :
              LET pkg == proc[p].arg
                  name == pkg.binaries[i]
                  rel == find_binary_path(TreeAt(pkg.path.hash), name)
              IN  (has(pkg.path.hash) /\ rel # NoPath)
                  => /\ name \in DOMAIN bin
                     /\ bin[name] = Join(pkg.path, rel)

\* an activate has replaced a link into another package
ActivateReplacedLink ==
    \E p \in Procs :
        /\ Returned(p, "activate") /\ proc[p].res.ok
        /\ \E name \in DOMAIN proc[p].pre.bin \cap DOMAIN bin :
              /\ proc[p].pre.bin[name].hash # proc[p].arg.hash
              /\ bin[name].hash = proc[p].arg.hash

\* the names of pkg.binaries that find_binary_path resolves in the store as
\* it is, in pkg.binaries order
Resolves(pkg, name) == find_binary_path(TreeAt(pkg.path.hash), name) # NoPath
ResolvedNames(pkg) == SelectSeq(pkg.binaries, LAMBDA name : Resolves(pkg, name))

\* links is what an activation of pkg leaves for pkg's names
ActivatedIn(links, pkg) ==
    \A name \in Range(ResolvedNames(pkg)) :
        /\ name \in DOMAIN links
        /\ links[name] = Join(pkg.path, find_binary_path(TreeAt(pkg.path.hash), name))

\* C11: an activate(pkg) called when the bin directory holds what an
\* activation of pkg leaves (with or without adds of the same content in
\* between) returns Ok, no filesystem call failing, and leaves the bin
\* directory as it was: one link per name, with the same target.
ActivateIsIdempotent ==
    \A p \in Procs :
        (Returned(p, "activate") /\ ActivatedIn(proc[p].pre.bin, proc[p].arg))
        => /\ NoIoError(p) => proc[p].res.ok
           /\ proc[p].res.ok => bin = proc[p].pre.bin

\* a second activation of a package with a binary has returned Ok
ActivatedTwice ==
    \E p \in Procs :
        /\ Returned(p, "activate") /\ proc[p].res.ok
        /\ ResolvedNames(proc[p].arg) # <<>>
        /\ ActivatedIn(proc[p].pre.bin, proc[p].arg)
        /\ bin = proc[p].pre.bin

\* C12: activate skips a name of pkg.binaries that does not resolve: it
\* leaves bin_dir/<name> as it was, still returns Ok (no filesystem call
\* failing), and the list it returns holds the bin_dir paths of the names
\* that resolve, in pkg.binaries order.
ActivateSkipsUnresolved ==
    \A p \in Procs :
        Returned(p, "activate")
        => /\ NoIoError(p) => proc[p].res.ok
           /\ proc[p].res.ok
              => proc[p].res.val = [i \in 1..Len(ResolvedNames(proc[p].arg)) |->
                                       BinPath(ResolvedNames(proc[p].arg)[i])]
           /\ \A name \in Range(proc[p].arg.binaries) :
                 ~Resolves(proc[p].arg, name)
                 => /\ name \in DOMAIN bin <=> name \in DOMAIN proc[p].pre.bin
                    /\ name \in DOMAIN bin => bin[name] = proc[p].pre.bin[name]

\* an activate has linked one name of a handle and skipped another
ActivatedInPart ==
    \E p \in Procs :
        /\ Returned(p, "activate") /\ proc[p].res.ok
        /\ Len(proc[p].res.val) >= 1
        /\ Len(proc[p].res.val) < Len(proc[p].arg.binaries)

\* C13: deactivate(pkg) returns Ok (no filesystem call failing) and then
\* bin_dir has no entry for any name of pkg.binaries, whether or not it had
\* one before; every other link and the content directory are as before.
DeactivateTolerant ==
    \A p \in Procs :
        Returned(p, "deactivate")
        => /\ NoIoError(p) => proc[p].res.ok
           /\ proc[p].res.ok => \A name \in Range(proc[p].arg.binaries) : name \notin DOMAIN bin
           /\ \A name \in DOMAIN proc[p].pre.bin \ Range(proc[p].arg.binaries) :
                 name \in DOMAIN bin /\ bin[name] = proc[p].pre.bin[name]
           /\ DOMAIN bin \subseteq DOMAIN proc[p].pre.bin
           /\ store = proc[p].pre.store

\* a package that was not activated has been deactivated while another
\* package's link is in place
DeactivatedUnactivated ==
    \E p \in Procs :
        /\ Returned(p, "deactivate") /\ proc[p].res.ok
        /\ \E name \in Range(proc[p].arg.binaries) : name \notin DOMAIN proc[p].pre.bin
        /\ bin # <<>>

\* bytes begins with the bytes of sig
BeginsWith(bytes, sig) == Len(bytes) >= Len(sig) /\ SubSeq(bytes, 1, Len(sig)) = sig

\* the format whose signature the blob begins with, in the order gzip, xz, zip
SignatureOf(bytes) ==
    IF BeginsWith(bytes, GzipMagic) THEN "gzip"
    ELSE IF BeginsWith(bytes, XzMagic) THEN "xz"
    ELSE IF BeginsWith(bytes, ZipMagic) THEN "zip"
    ELSE "none"

\* C14: add_bytes takes a blob for the archive format whose signature it
\* begins with, whatever its length: a blob that begins with a signature is
\* never written as the opaque file `bin`, and a blob that begins with none
\* is never extracted and never fails with an unpack error.
SniffBySignature ==
    \A p \in Procs :
        InCall(p, "add_bytes")
        => /\ SignatureOf(proc[p].arg.bytes) # "none"
              => proc[p].pc \notin {"ab_write", "ab_chmod"}
           /\ SignatureOf(proc[p].arg.bytes) = "none"
              => /\ proc[p].pc # "ab_member"
                 /\ proc[p].pc = "done" => proc[p].res.err # "Unpack"

\* the directory of an opaque blob: the one executable file `bin`
OpaqueTree(bytes) == (<<"bin">> :> FileNode(bytes, TRUE))

\* C15: an add_bytes of a blob that begins with no signature, its hash not
\* stored before, returns Ok (no filesystem call failing) with binaries
\* [bin] and leaves content_dir/<hash> with the one executable file `bin`
\* holding the bytes; activating such a package links bin_dir/bin to
\* content_dir/<hash>/bin.
OpaqueStoredAsBin ==
    \A p \in Procs :
        /\ (/\ Returned(p, "add_bytes")
            /\ SignatureOf(proc[p].arg.bytes) = "none"
            /\ ~(proc[p].arg.expected.some /\ proc[p].arg.expected.val # HashOfCall(p))
            /\ HashOfCall(p) \notin DOMAIN proc[p].pre.store)
           => /\ NoIoError(p) => proc[p].res.ok
              /\ proc[p].res.ok
                 => /\ HashOfCall(p) \in DOMAIN store
                    /\ store[HashOfCall(p)] = OpaqueTree(proc[p].arg.bytes)
                    /\ proc[p].res.val
                         = StoredPackage(HashOfCall(p), StorePath(HashOfCall(p)), <<"bin">>)
        /\ (/\ Returned(p, "activate") /\ proc[p].res.ok
            /\ proc[p].arg.binaries = <<"bin">>
            /\ \E b \in Blobs : TreeAt(proc[p].arg.hash) = OpaqueTree(b))
           => /\ "bin" \in DOMAIN bin
              /\ bin["bin"] = Join(StorePath(proc[p].arg.hash), <<"bin">>)
              /\ proc[p].res.val = <<BinPath("bin")>>

\* the package of an opaque blob has been activated
OpaqueActivated ==
    \E p \in Procs :
        /\ Returned(p, "activate") /\ proc[p].res.ok
        /\ proc[p].arg = StoredPackage(hash_bytes(OpaqueA), StorePath(hash_bytes(OpaqueA)), <<"bin">>)
        /\ TreeAt(hash_bytes(OpaqueA)) = OpaqueTree(OpaqueA)
        /\ "bin" \in DOMAIN bin

\* C16: in every state list() returns one package per sub-directory of the
\* content directory, with the directory's name as hash, the directory as
\* path and the binaries get(hash) returns in that state; with nothing
\* stored it returns the empty list.
ListIsStore ==
    LET packages == list
    IN  /\ Len(packages) = Cardinality(DOMAIN store)
        /\ { packages[i].hash : i \in 1..Len(packages) } = DOMAIN store
        /\ \A i \in 1..Len(packages) :
              /\ packages[i].path = StorePath(packages[i].hash)
              /\ get(packages[i].hash) = Some(packages[i])
        /\ DOMAIN store = {} => packages = <<>>

\* two packages are stored and list() reports binaries for one of them
ListedTwo ==
    /\ Len(list) = 2
    /\ \E i \in 1..Len(list) : list[i].binaries # <<>>
    /\ \E p \in Procs : Returned(p, "gc")

\* C17: a step that deletes content_dir/<h> or changes anything below it is
\* a step of a gc whose keep-set lacks h, or a step of the add_bytes or
\* add_path call that is creating h (h was not stored when that call
\* started); a step of the creating add never deletes it.  So no get, list,
\* has, activate or deactivate, and no add of a hash that is stored, changes
\* a stored directory, and has(h) stays true until such a gc.
FrameOfContent ==
    [][ \A h \in DOMAIN store :
          (h \notin DOMAIN store' \/ store'[h] # store[h])
          => \E p \in Procs :
                \/ proc[p].op = "gc" /\ h \notin proc[p].arg
                \/ /\ proc[p].op \in {"add_bytes", "add_path"}
                   /\ proc[p].pc \notin {"idle", "done"}
                   /\ proc[p].hash = h
                   /\ h \notin DOMAIN proc[p].pre.store
                   /\ h \in DOMAIN store' ]_vars

\* an add_path of content whose hash add_bytes stored has returned and the
\* directory is as add_bytes left it
AddOverStored ==
    \E p \in Procs :
        /\ Returned(p, "add_path")
        /\ HashOfCall(p) \in DOMAIN proc[p].pre.store
        /\ <<"bin">> \in DOMAIN TreeAt(HashOfCall(p))
        /\ store = proc[p].pre.store

\* A stream of the reference rule, told apart from raw bytes: a byte b is
\* the chunk [digest |-> FALSE, v |-> <<b>>], and the digest bytes of a
\* stream s are the one chunk [digest |-> TRUE, v |-> s] (no run of raw
\* bytes equals the digest bytes that the rule puts in their place).
Tagged(stream) == [i \in 1..Len(stream) |-> [digest |-> FALSE, v |-> <<stream[i]>>]]

RECURSIVE RefDirStream(_, _)
RECURSIVE RefEntries(_, _, _)
\* the reference fold name_1 || H(entry_1) || name_2 || H(entry_2) || ...
\* over the entries of directory dir in byte-wise name order
RefDirStream(t, dir) == RefEntries(t, dir, SortedNames(Children(t, dir), FALSE))

RefEntries(t, dir, names) ==
    IF names = <<>> THEN <<>>
    ELSE LET path == Append(dir, Head(names))
             inner == IF t[path].k = "file" THEN Tagged(t[path].data)
                      ELSE RefDirStream(t, path)
         IN  Tagged(NameBytes(Head(names)))
             \o <<[digest |-> TRUE, v |-> inner]>>
             \o RefEntries(t, dir, Tail(names))

\* what the stated rule feeds the digest for a source
RefStream(source) ==
    CASE source.kind = "file" -> Tagged(source.data)
      [] source.kind = "dir"  -> RefDirStream(source.tree, <<>>)
      [] OTHER                -> <<>>

\* the add_path call of process p has computed the hash of its source
Hashed(p) == InCall(p, "add_path") /\ proc[p].pc \notin {"idle", "done"}

\* C18: the hash add_path computes for a source is the digest of the
\* reference fold: for a directory, per entry in byte-wise name order, the
\* name bytes followed by the entry's own digest bytes.
DirHashFollowsRule ==
    \A p \in Procs :
        Hashed(p) => Tagged(proc[p].hash.sha256) = RefStream(proc[p].arg)

\* the source with every permission bit cleared
ContentOf(source) ==
    [source EXCEPT !.exec = FALSE,
                   !.tree = [q \in DOMAIN source.tree |->
                                [source.tree[q] EXCEPT !.exec = FALSE]]]

\* C19: the hash of a source depends on its entry names and file contents
\* alone: whatever the order in which the filesystem lists directories and
\* whatever the execute bits, it is the hash of the same content with the
\* bits cleared on a filesystem that lists in ascending order.
HashIsContentOnly ==
    \A p \in Procs :
        Hashed(p) => proc[p].hash = hash_path(ContentOf(proc[p].arg), "asc")

\* a directory with two entries and an executable has been hashed on a
\* filesystem that lists in descending order
HashedDescending ==
    \E p \in Procs :
        /\ Hashed(p)
        /\ order = "desc"
        /\ proc[p].arg.kind = "dir"
        /\ Cardinality(Children(proc[p].arg.tree, <<>>)) = 2
        /\ proc[p].arg # ContentOf(proc[p].arg)

\* the directory one add_bytes of the bytes, alone on a fresh store, leaves
SingleAdd(bytes) ==
    IF ArchiveFormat(bytes) = "none" THEN OpaqueTree(bytes)
    ELSE UnpackAll(EmptyTree, ArchiveMembers(bytes))

\* one add_bytes of the bytes, alone, returns Ok
AddsAlone(bytes) ==
    \A i \in 1..Len(ArchiveMembers(bytes)) : ArchiveMembers(bytes)[i].ok

\* C20: with no I/O error injected, every add_bytes of two racing processes
\* (of bytes one add alone stores) returns Ok, whatever the interleaving of
\* the existence tests, directory creations, member extractions, writes and
\* chmods, and once no call is running content_dir/<hash> is the directory
\* a single add_bytes produces.
RacingAddsAreBenign ==
    faults = 0 =>
        /\ \A p \in Racers :
              Returned(p, "add_bytes") /\ AddsAlone(proc[p].arg.bytes) => proc[p].res.ok
        /\ (\A p \in Racers : proc[p].pc \in {"idle", "done"})
              => \A b \in Blobs :
                    AddsAlone(b) /\ has(hash_bytes(b))
                       => store[hash_bytes(b)] = SingleAdd(b)

\* both processes passed the existence test before either created the
\* directory, and both calls have returned
BothPassedExistsTest ==
    /\ faults = 0
    /\ \A p \in Racers :
          /\ Returned(p, "add_bytes")
          /\ proc[p].res.ok
          /\ proc[p].arg.bytes = proc["p1"].arg.bytes
          /\ hash_bytes(proc[p].arg.bytes) \notin DOMAIN proc[p].pre.store

\* C21: when activate removes the entry it found at bin_dir/<name>, the
\* entry being gone by then (another process removed it after activate's
\* existence test) is no error: unless the filesystem call itself fails,
\* activate goes on to create the new link.
ActivateToleratesMissingLink ==
    [][ \A p \in Racers :
          (proc[p].pc = "act_unlink" /\ proc'[p] # proc[p] /\ faults' = faults)
             => proc'[p].pc = "act_symlink" ]_vars

\* C22: no step puts a new target under a name that is linked: a link is
\* removed in one step and created in another, so that between the two the
\* name is missing from bin_dir; and in the step in which activate returns
\* Ok every link it returns exists.
ReplaceIsNotAtomic ==
    [][ /\ \A name \in DOMAIN bin \cap DOMAIN bin' : bin'[name] = bin[name]
        /\ \A p \in Procs :
              (/\ proc[p].op = "activate" /\ proc[p].pc # "done"
               /\ proc'[p].pc = "done" /\ proc'[p].res.ok)
                 => \A i \in 1..Len(proc'[p].res.val) :
                       proc'[p].res.val[i].link \in DOMAIN bin' ]_vars

\* activate has removed the link that was there when it was called and has
\* not created the new one yet
LinkMissingDuringReplace ==
    \E p \in Procs :
        /\ InCall(p, "activate")
        /\ proc[p].pc = "act_symlink"
        /\ Head(proc[p].names) \in DOMAIN proc[p].pre.bin
        /\ Head(proc[p].names) \notin DOMAIN bin

\* C23: gc and activate take no notice of each other.  Unless the
\* filesystem call fails, gc's remove_dir_all deletes content_dir/<h>
\* whatever activation has resolved a path in it, and activate's symlink
\* creates the link to the path it resolved earlier whether or not that
\* path still exists.
GcAndActivateNotTransactional ==
    [][ \A p \in Racers :
          /\ (/\ proc[p].pc = "gc_rmdir" /\ proc'[p] # proc[p] /\ faults' = faults
              /\ proc[p].cur.hash \in DOMAIN store)
                => /\ proc[p].cur.hash \notin DOMAIN store'
                   /\ \A q \in Racers \ {p} : proc'[q] = proc[q]
          /\ (/\ proc[p].pc = "act_symlink" /\ proc'[p] # proc[p] /\ faults' = faults
              /\ Head(proc[p].names) \notin DOMAIN bin)
                => /\ Head(proc[p].names) \in DOMAIN bin'
                   /\ bin'[Head(proc[p].names)] = proc[p].src ]_vars

\* activate and gc overlapped, both returned Ok with no I/O error, and a
\* link activate created is left pointing into the directory gc deleted
DanglingAfterGcRace ==
    \E pa \in Racers, pg \in Racers :
        /\ faults = 0
        /\ Returned(pa, "activate") /\ proc[pa].res.ok
        /\ Returned(pg, "gc") /\ proc[pg].res.ok
        /\ proc[pa].arg.hash \in Range(proc[pg].res.val)
        /\ \E i \in 1..Len(proc[pa].res.val) :
              LET name == proc[pa].res.val[i].link
              IN  /\ name \in DOMAIN bin
                  /\ bin[name].hash = proc[pa].arg.hash
                  /\ ~Exists(bin[name])

\* C24: what is stored under a hash does not depend on the operation that
\* stored it: with no I/O error, an add_bytes of bytes b and an add_path of
\* a single file with content b both return Ok with content_dir/<hash>
\* holding what a single add_bytes(b) stores, and with its binaries.
LayoutByHashAlone ==
    faults = 0 =>
        \A p \in Procs :
            LET b == IF proc[p].op = "add_bytes" THEN proc[p].arg.bytes
                     ELSE proc[p].arg.data
            IN  (/\ \/ Returned(p, "add_bytes") /\ AddsAlone(proc[p].arg.bytes)
                    \/ Returned(p, "add_path") /\ proc[p].arg.kind = "file"
                 /\ proc[p].res.ok)
                   => /\ proc[p].res.val.hash = hash_bytes(b)
                      /\ TreeAt(hash_bytes(b)) = SingleAdd(b)
                      /\ proc[p].res.val.binaries = find_binaries(SingleAdd(b), order)

\* C25: after gc(K) returned Ok, every link of the bin directory that
\* resolved into a package with its hash in K before the call exists with
\* the target it had.
GcSparesKeptLinks ==
    \A p \in Procs :
        (Returned(p, "gc") /\ proc[p].res.ok)
        => \A name \in DOMAIN proc[p].pre.bin :
              (/\ proc[p].pre.bin[name].hash \in proc[p].arg
               /\ proc[p].pre.bin[name].hash \in DOMAIN proc[p].pre.store)
                 => /\ name \in DOMAIN bin
                    /\ bin[name] = proc[p].pre.bin[name]

\* C26: the path activate links a name to is a regular executable file of
\* the package, one that find_binaries lists under that name.
LinkTargetIsExecutable ==
    \A p \in Procs :
        (InCall(p, "activate") /\ proc[p].pc = "act_symlink")
        => /\ is_executable(TreeAt(proc[p].src.hash), proc[p].src.rel)
           /\ \E i \in 1..Len(SearchDirs) :
                 proc[p].src.rel = Append(SearchDirs[i], Head(proc[p].names))

\* C27: when add_path returns an error, has(h) is what it was before the
\* call for every hash h, and list() returns the packages it returned before
\* (the same directories with the same binaries).
FailedAddPathChangesNothing ==
    \A p \in Procs :
        (Returned(p, "add_path") /\ ~proc[p].res.ok)
        => /\ DOMAIN store = DOMAIN proc[p].pre.store
           /\ \A h \in DOMAIN store \cap DOMAIN proc[p].pre.store :
                 find_binaries(store[h], order) = find_binaries(proc[p].pre.store[h], order)

\* C28: two directory trees with the same hash have the same entry names,
\* nesting and file contents: the hash add_path computes for a directory is
\* the hash of no directory that differs from it in more than permissions.
HashSeparatesTrees ==
    \A p \in Procs :
        (Hashed(p) /\ proc[p].arg.kind = "dir")
        => \A s \in HashSources :
              (s.kind = "dir" /\ hash_path(s, order) = proc[p].hash)
                 => ContentOf(s).tree = ContentOf(proc[p].arg).tree

\* C29: with no I/O error, every package an add_bytes returns while another
\* process may still be inside add_bytes for the same hash is the finished
\* package: its binaries are those of the directory a single add produces.
ConcurrentAddIsComplete ==
    faults = 0 =>
        \A p \in Racers :
            (/\ Returned(p, "add_bytes") /\ proc[p].res.ok
             /\ AddsAlone(proc[p].arg.bytes))
               => proc[p].res.val.binaries
                     = find_binaries(SingleAdd(proc[p].arg.bytes), order)

\* C30: in every state and for every string h, has(h) holds exactly when
\* get(h) is Some, and exactly when list() contains a package with hash h.
QueriesAgree ==
    LET packages == list
    IN  \A h \in QueryNames :
            /\ has(h) <=> get(h).some
            /\ has(h) <=> \E i \in 1..Len(packages) : packages[i].hash = h

====
